---- MODULE Spec2Model ----
(***************************************************************************)
(* nanocall: the read pipeline of real_main.                               *)
(*                                                                         *)
(* Spec      one worker thread, one input file: the rescaling pass and the *)
(*           basecalling pass of a read, step by step (one action per      *)
(*           train_one_round call, per strand of the basecaller).          *)
(* SpecPfor  the pfor harness: several workers, chunks of chunk_size       *)
(*           items, ordered output; process_item is two steps per item.    *)
(***************************************************************************)
EXTENDS Integers, Sequences, FiniteSets, TLC

(***************************************************************************)
(* Bounds of the model.                                                    *)
(***************************************************************************)
MaxRounds == 3
MaxParam == 1
MaxFit == 1
MaxProb == 1
MaxThreads == 2
MaxFiles == 22
MaxArgLen == 3

(***************************************************************************)
(* Program constants (scaled where the text says so).                      *)
(***************************************************************************)
\* opts::scale_min_fit_progress, its default
scale_min_fit_progress == 1
\* opts::min_read_len, scaled down from its default of 1000
min_read_len == 2
\* the hard-wired strand threshold of src/nanocall.cpp, scaled down from 100
legacy_min_len == 2

ParamVals == 0..MaxParam
FitVals == 0..MaxFit
ProbVals == 0..MaxProb
\* old_fit of round 0 is logged as -INFINITY
NegInf == 0 - 1
\* Pore_Model_Parameters_Type(): the default-constructed parameters
DefaultParams == 0
NoName == << >>

(***************************************************************************)
(* Strings are sequences of characters, so that operator+ is \o.           *)
(***************************************************************************)
NameOrder == << <<"a">>, <<"b">>, <<"c">> >>

Names == {NameOrder[i] : i \in DOMAIN NameOrder}

Rank(n) == CHOOSE i \in DOMAIN NameOrder : NameOrder[i] = n

Concat(m0, m1) == m0 \o <<"+">> \o m1

\* Pore_Model_Dict_Type values the run may hold after init_models:
\* name |-> strand tag
ModelDicts ==
    { (<<"a">> :> 0) @@ (<<"c">> :> 1),
      (<<"a">> :> 0) @@ (<<"b">> :> 0) @@ (<<"c">> :> 1),
      (<<"a">> :> 2) @@ (<<"b">> :> 1) }

\* for (const auto& p : models): a std::map is walked in key order
DictOrder(ms) == SelectSeq(NameOrder, LAMBDA n : n \in DOMAIN ms)

\* the models that apply to strand st
Applicable(ms, st) ==
    SelectSeq(DictOrder(ms), LAMBDA n : ms[n] = st \/ ms[n] = 2)

\* Shortlist without the test of the strand of a model
ShortlistAnyStrand(ms, pref, st) ==
    IF pref \in DOMAIN ms THEN << pref >> ELSE DictOrder(ms)

\* Shortlist without the test for a preferred model
ShortlistAll(ms, pref, st) == Applicable(ms, st)

\* the list of models to try for a strand
Shortlist(ms, pref, st) ==
    IF pref \in DOMAIN ms THEN << pref >> ELSE Applicable(ms, st)

\* NotEnoughEvents with <= for <
NotEnoughOrJustEnough(n) == n <= min_read_len

\* basecall_reads: "if not enough events, ignore strand"
NotEnoughEvents(n) == n < min_read_len

\* if not enough events, ignore strand
TooShort(n) == n < min_read_len

Qualifies(n) == ~TooShort(n)

\* the model pairs of the strands-together loops, m_name_0 outer
PairSeq(l0, l1) ==
    [k \in 1..(Len(l0) * Len(l1)) |->
        << l0[((k - 1) \div Len(l1)) + 1], l1[((k - 1) % Len(l1)) + 1] >>]

\* alg::max_of: the first element, in iteration order, of maximal value
max_of(keys, fit) ==
    CHOOSE k \in DOMAIN keys :
        /\ \A j \in DOMAIN keys : fit[keys[j]] <= fit[keys[k]]
        /\ \A j \in DOMAIN keys : j < k => fit[keys[j]] < fit[keys[k]]

\* train_one_round writing what it learnt into the transitions it is given
train_one_round_in_place(tr) == "trained"

\* the transitions after train_one_round was given them: as before
train_one_round_transitions(tr) == tr

\* train_one_round(..., old_pm_params, crt_pm_params, fit, done): what one
\* round may return
TrainOutcomes(old) ==
    { [params |-> p, fit |-> f, done |-> d] :
        p \in ParamVals, f \in FitVals, d \in BOOLEAN }
    \ { o \in [params : ParamVals, fit : FitVals, done : BOOLEAN] :
            o.done /\ o.params # old }

(***************************************************************************)
(* State.                                                                  *)
(***************************************************************************)
VARIABLES
    build,          \* which main() runs: part "nanocall" or src/nanocall.cpp "legacy"
    opts,           \* the parsed command line
    models,         \* Pore_Model_Dict_Type: name |-> strand tag
    files,          \* the Fast5_Summary_Type built for each input file
    reads,          \* deque< Fast5_Summary_Type >
    pc,             \* position of the main thread / the single worker
    crt_idx,        \* next read index get_item dispenses
    buff,           \* the worker's chunk of items
    pos,            \* index in buff of the item in process
    st,             \* strand loop variable
    k,              \* index in the model loop
    model_list,     \* per-strand list of models to try
    model_fit,      \* fit of round 0 per model (per model pair)
    round,          \* loop variable of the convergence loop
    crt_pm_params,
    crt_fit,
    last,           \* the scaling_round line logged last, kept to the next loop head
    calls,          \* train_one_round calls per model of the strand in process
    result,         \* the scaling_result line logged last, kept likewise
    results,        \* the results deque of the strand basecalled last, sorted
    oss,            \* the worker's chunk output
    os,             \* the output sink
    exit_code,
    stats_file,     \* the file of --stats
    model_args,     \* SpecModels: the --model arguments and the --model-fofn lines
    given,          \* SpecModels: init_models' model_list and its loop positions
    wk,             \* SpecPfor: per-worker state
    cid_in,         \* SpecPfor: chunks handed out
    cid_out,        \* SpecPfor: chunks written
    trace,          \* SpecPfor: the passes run and the items they processed
    name,           \* write_fasta: the record's name
    seq,            \* write_fasta: the base sequence
    fasta_line_width,   \* opts::fasta_line_width
    scale_num_events,   \* opts::scale_num_events
    train_event_seqs,   \* rescale_reads: the event sequences to train on
    transitions         \* State_Transitions_Type: how its contents arose

argVars == << model_args, given >>
fastaVars == << name, seq, fasta_line_width >>
trainVars == << scale_num_events, train_event_seqs >>
fixedVars == << build, opts, models, files, argVars, fastaVars, trainVars >>
cfgVars == << fixedVars, transitions >>
loopVars == << st, k, model_list, model_fit, round, crt_pm_params, crt_fit >>
logVars == << last, calls, result >>
outVars == << results, oss, os >>
pforVars == << wk, cid_in, cid_out, trace >>
endVars == << exit_code, stats_file >>
vars == << build, opts, models, files, reads, pc, crt_idx, buff, pos,
           st, k, model_list, model_fit, round, crt_pm_params, crt_fit,
           last, calls, result, results, oss, os, exit_code, stats_file, wk,
           cid_in, cid_out, trace, model_args, given, name, seq,
           fasta_line_width, scale_num_events, train_event_seqs,
           transitions >>

Strands == {0, 1}

Switches(a, t, r, o) ==
    [ accurate_scaling |-> a,
      scale_strands_together |-> t,
      scale_select_model_single_round |-> r,
      scale_only |-> o ]

\* the command lines of Spec: the switches, and scale-max-rounds
SwitchChoices ==
    { Switches(FALSE, FALSE, FALSE, FALSE),
      Switches(TRUE, FALSE, FALSE, FALSE),
      Switches(FALSE, FALSE, TRUE, FALSE),
      Switches(FALSE, TRUE, FALSE, FALSE),
      Switches(FALSE, TRUE, TRUE, FALSE),
      Switches(FALSE, FALSE, FALSE, TRUE) }

WithValues(sw, threads, max_rounds) ==
    [ accurate_scaling |-> sw.accurate_scaling,
      scale_strands_together |-> sw.scale_strands_together,
      scale_select_model_single_round |->
          sw.scale_select_model_single_round,
      scale_only |-> sw.scale_only,
      num_threads |-> threads,
      scale_max_rounds |-> max_rounds,
      stats |-> FALSE ]

\* --stats given: opts::stats_fn is not empty
WithStats(o) == [o EXCEPT !.stats = TRUE]

\* the command lines of Spec; --stats with both kinds of --scale-only run
Opts ==
    { WithValues(sw, 1, r) : sw \in SwitchChoices, r \in 0..MaxRounds }
    \cup { WithStats(WithValues(Switches(FALSE, FALSE, FALSE, TRUE), 1, r)) :
              r \in 0..MaxRounds }
    \cup { WithStats(WithValues(Switches(TRUE, FALSE, FALSE, TRUE), 1, 2)) }

\* the options src/nanocall.cpp does not have, at values that change nothing
LegacyOpts ==
    [ accurate_scaling |-> FALSE,
      scale_strands_together |-> FALSE,
      scale_select_model_single_round |-> FALSE,
      scale_only |-> FALSE,
      num_threads |-> 1,
      scale_max_rounds |-> 0,
      stats |-> FALSE ]

\* the keys of params[s]: every model of strand s; of params[2]: every pair
ParamKeys(ms, together) ==
    (0 :> {Applicable(ms, 0)[i] : i \in DOMAIN Applicable(ms, 0)})
    @@ (1 :> {Applicable(ms, 1)[i] : i \in DOMAIN Applicable(ms, 1)})
    @@ (2 :> IF together
             THEN {Concat(Applicable(ms, 0)[i], Applicable(ms, 1)[j]) :
                      i \in DOMAIN Applicable(ms, 0),
                      j \in DOMAIN Applicable(ms, 1)}
             ELSE {})

\* Fast5_Summary_Type(f, models, scale_strands_together)
Fast5_Summary(id, ms, together, have, bounds, pref) ==
    [ read_id |-> id,
      have_ed_events |-> have,
      strand_bounds |-> bounds,
      events |-> [s \in Strands |-> 0],
      loaded |-> FALSE,
      preferred_model |-> pref,
      params |-> [s \in 0..2 |->
                    [key \in ParamKeys(ms, together)[s] |-> DefaultParams]] ]

StrandLens == {min_read_len - 1, min_read_len}

Bounds(l0, l1) == << 0, l0, l0, l0 + l1 >>

PrefChoices ==
    { (0 :> NoName) @@ (1 :> NoName),
      (0 :> <<"a">>) @@ (1 :> NoName),
      (0 :> <<"a">>) @@ (1 :> <<"c">>) }

\* Fast5_Summary_Type::load_events: the events of each strand
LoadedEvents(s) ==
    IF s.have_ed_events
    THEN (0 :> s.strand_bounds[2] - s.strand_bounds[1])
         @@ (1 :> s.strand_bounds[4] - s.strand_bounds[3])
    ELSE [t \in Strands |-> 0]

NoLog == [ round |-> NegInf ]

ZeroCalls(ms, together) ==
    [s \in 0..2 |-> [key \in ParamKeys(ms, together)[s] |-> 0]]

\* no scaling_result line yet (a logged line has rounds >= 1)
NoResult == [ rounds |-> 0 ]

\* the stats file before real_main opens it
NoFile == [ opened |-> FALSE, lines |-> << >> ]

NotExited == 0 - 1
EXIT_SUCCESS == 0
EXIT_FAILURE == 1

IdleWorkers == << >>

NoTrace ==
    [ passes |-> << >>,
      began |-> [rescale |-> {}, basecall |-> {}],
      ended |-> [rescale |-> {}, basecall |-> {}],
      finished |-> << >> ]

\* pfor's chunk_size argument in rescale_reads and basecall_reads
chunk_size == 10

NoArgs == [ fn |-> << >>, fofn |-> << >> ]

\* init_models' model_list, empty, and the position of its loops
NoneGiven == [ list |-> [t \in 0..2 |-> << >>], next |-> 1, st |-> 0 ]

\* init_transitions: the table is loaded from a file or computed
InitTransitions == "initialized"

\* the state of real_main's locals when it is at the given place, with
\* the given reads
InitStateWith(at, rs) ==
    /\ transitions = InitTransitions
    /\ reads = rs
    /\ pc = at
    /\ crt_idx = 0
    /\ buff = << >>
    /\ pos = 0
    /\ st = 0
    /\ k = 0
    /\ model_list = [s \in Strands |-> << >>]
    /\ model_fit = << >>
    /\ round = 0
    /\ crt_pm_params = DefaultParams
    /\ crt_fit = NegInf
    /\ last = NoLog
    /\ calls = ZeroCalls(models, opts.scale_strands_together)
    /\ result = NoResult
    /\ results = << >>
    /\ oss = << >>
    /\ os = << >>
    /\ exit_code = NotExited
    /\ stats_file = NoFile
    /\ wk = IdleWorkers
    /\ cid_in = 0
    /\ cid_out = 0
    /\ trace = NoTrace

InitState(at) == InitStateWith(at, << >>)

\* the default of --scale-num-events
default_scale_num_events == 200

NoTrainSeqs == [s \in Strands |-> << >>]

\* process_item of rescale_reads has not built its event sequences
NoTraining ==
    /\ scale_num_events = default_scale_num_events
    /\ train_event_seqs = NoTrainSeqs

\* the default of --fasta-line-width
default_fasta_line_width == 80

\* no record is being written
NoRecord ==
    /\ name = << >>
    /\ seq = << >>
    /\ fasta_line_width = default_fasta_line_width

\* the state real_main calls init_files in, the models loaded
InitLocals ==
    /\ InitState("init_files")
    /\ model_args = NoArgs
    /\ given = NoneGiven
    /\ NoRecord
    /\ NoTraining

Init ==
    /\ build \in {"nanocall", "legacy"}
    /\ opts \in IF build = "nanocall" THEN Opts ELSE {LegacyOpts}
    /\ models \in ModelDicts
    /\ \E have \in BOOLEAN, l0 \in StrandLens, l1 \in StrandLens,
          pref \in PrefChoices :
          /\ have \/ (l0 = min_read_len /\ l1 = min_read_len
                        /\ pref[0] = NoName /\ pref[1] = NoName)
          /\ files = << Fast5_Summary(0, models,
                                       opts.scale_strands_together, have,
                                       Bounds(l0, l1), pref) >>
    /\ InitLocals

(***************************************************************************)
(* real_main and the two passes, one worker.                               *)
(***************************************************************************)
Read == reads[buff[pos] + 1]

SetRead(r) == [reads EXCEPT ![buff[pos] + 1] = r]

\* init_reads: the summaries that are kept
KeepRead(s) ==
    IF build = "nanocall"
    THEN /\ s.have_ed_events
         /\ \/ s.strand_bounds[2] >= s.strand_bounds[1] + min_read_len
            \/ s.strand_bounds[4] >= s.strand_bounds[3] + min_read_len
    ELSE s.have_ed_events

\* init_files, its end: no file to process is fatal
InitFiles ==
    /\ pc = "init_files"
    /\ IF files = << >>
       THEN /\ exit_code' = EXIT_FAILURE
            /\ pc' = "exit"
       ELSE /\ pc' = "init_reads"
            /\ UNCHANGED exit_code
    /\ UNCHANGED stats_file
    /\ UNCHANGED << cfgVars, reads, crt_idx, buff, pos, loopVars, logVars,
                    outVars, pforVars >>

InitReads ==
    /\ pc = "init_reads"
    /\ reads' = SelectSeq(files, KeepRead)
    /\ pc' = "rescale_gate"
    /\ UNCHANGED << cfgVars, crt_idx, buff, pos, loopVars, logVars, outVars,
                    endVars, pforVars >>

\* DoRescale without scale_select_model_single_round
DoRescaleUnlessSelect(o) ==
    \/ o.accurate_scaling
    \/ o.scale_strands_together

\* if (opts::accurate_scaling or opts::scale_strands_together or ...)
DoRescale(o) ==
    \/ o.accurate_scaling
    \/ o.scale_strands_together
    \/ o.scale_select_model_single_round

\* if (not opts::scale_only)
DoBasecall(o) == ~o.scale_only

RescaleGate ==
    /\ pc = "rescale_gate"
    /\ pc' = IF build = "nanocall" /\ DoRescale(opts)
             THEN "r_get" ELSE "basecall_gate"
    /\ crt_idx' = 0
    /\ buff' = << >>
    /\ UNCHANGED << cfgVars, reads, pos, loopVars, logVars, outVars,
                    endVars, pforVars >>

\* get_item of rescale_reads, called until the chunk is full or it fails
RescaleGetItem ==
    /\ pc = "r_get"
    /\ IF crt_idx >= Len(reads) \/ Len(buff) >= chunk_size
       THEN /\ pc' = IF buff = << >> THEN "basecall_gate" ELSE "r_item"
            /\ UNCHANGED << crt_idx, buff >>
       ELSE /\ buff' = Append(buff, crt_idx)
            /\ crt_idx' = crt_idx + 1
            /\ pc' = "r_get"
    /\ pos' = 1
    /\ UNCHANGED << cfgVars, reads, loopVars, logVars, outVars, endVars,
                    pforVars >>

\* process_item of rescale_reads up to the choice of the training regime
RescaleBegin ==
    /\ pc = "r_item"
    /\ LET ev == LoadedEvents(Read)
           lists == [s \in Strands |->
                       IF TooShort(ev[s]) THEN << >>
                       ELSE Shortlist(models, Read.preferred_model[s], s)]
       IN /\ reads' = SetRead([Read EXCEPT !.events = ev, !.loaded = TRUE])
          /\ model_list' = lists
          /\ IF /\ opts.scale_strands_together
                /\ ev[0] >= min_read_len
                /\ ev[1] >= min_read_len
             THEN pc' = "t_round0"
             ELSE pc' = "s_strand"
    /\ st' = 0
    /\ k' = 1
    /\ model_fit' = << >>
    /\ UNCHANGED << cfgVars, crt_idx, buff, pos, round, crt_pm_params,
                    crt_fit, logVars, outVars, endVars, pforVars >>

\* the scaling_round line of one train_one_round call
RoundLog(s, key, old_params, old_fit, o, rnd) ==
    [ strand |-> s, model |-> key, old_params |-> old_params,
      old_fit |-> old_fit, crt_params |-> o.params, crt_fit |-> o.fit,
      done |-> o.done, round |-> rnd ]

Count(c, s, key) == [c EXCEPT ![s][key] = @ + 1]

\* DoneBreaks with the test of done left out
DoneIgnored(done) == FALSE

\* if (done) break
DoneBreaks(done) == done

\* the stop condition after ++round
StopCondition(rnd, fit, old_fit, max_rounds) ==
    \/ rnd >= max_rounds
    \/ (rnd > 1 /\ fit < old_fit + scale_min_fit_progress)

\* LoopStep with the regression branch leaving the round's parameters in place
LoopStepNoRevert(old_params, old_fit, rnd, o, max_rounds) ==
    IF o.done \/ o.fit < old_fit
    THEN [ params |-> o.params, fit |-> o.fit, round |-> rnd, brk |-> TRUE ]
    ELSE [ params |-> o.params, fit |-> o.fit, round |-> rnd + 1,
           brk |-> StopCondition(rnd + 1, o.fit, old_fit, max_rounds) ]

\* one iteration of while (true), after train_one_round returned o
LoopStep(old_params, old_fit, rnd, o, max_rounds) ==
    IF DoneBreaks(o.done)
    THEN [ params |-> o.params, fit |-> o.fit, round |-> rnd, brk |-> TRUE ]
    ELSE IF o.fit < old_fit
    THEN [ params |-> old_params, fit |-> old_fit, round |-> rnd,
           brk |-> TRUE ]
    ELSE [ params |-> o.params, fit |-> o.fit, round |-> rnd + 1,
           brk |-> StopCondition(rnd + 1, o.fit, old_fit, max_rounds) ]

(***************************************************************************)
(* Scaling the two strands together.                                       *)
(***************************************************************************)
Pairs == PairSeq(model_list[0], model_list[1])

PairKey(pr) == Concat(pr[1], pr[2])

\* round 0 for the k-th model pair
TogetherRound0 ==
    /\ pc = "t_round0"
    /\ LET m_name == Pairs[k]
           m_name_str == PairKey(m_name)
           old_pm_params == Read.params[2][m_name_str]
       IN \E o \in TrainOutcomes(old_pm_params) :
            /\ model_fit' = (m_name :> o.fit) @@ model_fit
            /\ reads' = SetRead([Read EXCEPT !.params[2][m_name_str] =
                                                o.params])
            /\ last' = RoundLog(2, m_name_str, old_pm_params, NegInf, o, 0)
            /\ calls' = Count(calls, 2, m_name_str)
    /\ k' = k + 1
    /\ pc' = IF k = Len(Pairs) THEN "t_select" ELSE "t_round0"
    /\ transitions' = train_one_round_transitions(transitions)
    /\ UNCHANGED << fixedVars, crt_idx, buff, pos, st, model_list, round,
                    crt_pm_params, crt_fit, result, outVars, endVars,
                    pforVars >>

\* SelectTogether without the "true or"
SelectTogetherByFlag(o) == o.scale_select_model_single_round

\* if (true or opts::scale_select_model_single_round)
SelectTogether(o) == TRUE \/ o.scale_select_model_single_round

TogetherSelect ==
    /\ pc = "t_select"
    /\ IF SelectTogether(opts)
       THEN LET it_max == Pairs[max_of(Pairs, model_fit)]
            IN /\ reads' = SetRead([Read EXCEPT
                                !.preferred_model[0] = it_max[1],
                                !.preferred_model[1] = it_max[2]])
               /\ model_list' = (0 :> << it_max[1] >>)
                                 @@ (1 :> << it_max[2] >>)
       ELSE UNCHANGED << reads, model_list >>
    /\ k' = 1
    /\ pc' = "t_loop"
    /\ UNCHANGED << cfgVars, crt_idx, buff, pos, st, model_fit, round,
                    crt_pm_params, crt_fit, logVars, outVars, endVars,
                    pforVars >>

\* the head of the second pair loop: the next pair, or the end of the read
TogetherLoopInit ==
    /\ pc = "t_loop"
    /\ IF k > Len(Pairs)
       THEN /\ pc' = "r_drop"
            /\ UNCHANGED << round, crt_pm_params, crt_fit >>
       ELSE /\ round' = 1
            /\ crt_pm_params' = Read.params[2][PairKey(Pairs[k])]
            /\ crt_fit' = model_fit[Pairs[k]]
            /\ pc' = "t_train"
    /\ last' = NoLog
    /\ result' = NoResult
    /\ UNCHANGED << cfgVars, reads, crt_idx, buff, pos, st, k, model_list,
                    model_fit, calls, outVars, endVars, pforVars >>

\* one iteration of the convergence loop of the pair
TogetherTrain ==
    /\ pc = "t_train"
    /\ \E o \in TrainOutcomes(crt_pm_params) :
         LET step == LoopStep(crt_pm_params, crt_fit, round, o,
                              opts.scale_max_rounds)
         IN /\ crt_pm_params' = step.params
            /\ crt_fit' = step.fit
            /\ round' = step.round
            /\ pc' = IF step.brk THEN "t_persist" ELSE "t_train"
            /\ last' = RoundLog(2, PairKey(Pairs[k]), crt_pm_params, crt_fit,
                                o, round)
            /\ calls' = Count(calls, 2, PairKey(Pairs[k]))
    /\ transitions' = train_one_round_transitions(transitions)
    /\ UNCHANGED << fixedVars, reads, crt_idx, buff, pos, st, k, model_list,
                    model_fit, result, outVars, endVars, pforVars >>

\* the scaling_result line
ResultLog(s, key, params, fit, rnd) ==
    [ strand |-> s, model |-> key, parameters |-> params, fit |-> fit,
      rounds |-> rnd ]

\* PersistTogether without the copies into params[0] and params[1]
PersistTogetherOnly(params, m_name, p) ==
    [params EXCEPT ![2][PairKey(m_name)] = p]

\* what the pair loop writes back after while (true)
PersistTogether(params, m_name, p) ==
    [params EXCEPT ![2][PairKey(m_name)] = p,
                   ![0] = (m_name[1] :> p) @@ @,
                   ![1] = (m_name[2] :> p) @@ @]

TogetherPersist ==
    /\ pc = "t_persist"
    /\ result' = ResultLog(2, PairKey(Pairs[k]), crt_pm_params, crt_fit,
                         round)
    /\ reads' = SetRead([Read EXCEPT !.params =
                    PersistTogether(Read.params, Pairs[k], crt_pm_params)])
    /\ k' = k + 1
    /\ round' = 0
    /\ crt_pm_params' = DefaultParams
    /\ crt_fit' = NegInf
    /\ pc' = "t_loop"
    /\ UNCHANGED << cfgVars, crt_idx, buff, pos, st, model_list, model_fit,
                    last, calls, outVars,
                    endVars, pforVars >>

(***************************************************************************)
(* Scaling each strand on its own.                                         *)
(***************************************************************************)
\* the head of for (st ...): skip a short strand, or start its round 0
StrandHead ==
    /\ pc = "s_strand"
    /\ IF st >= 2
       THEN /\ pc' = "r_drop"
            /\ UNCHANGED << st, model_fit >>
       ELSE IF TooShort(Read.events[st])
       THEN /\ st' = st + 1
            /\ pc' = "s_strand"
            /\ UNCHANGED model_fit
       ELSE /\ pc' = "s_round0"
            /\ model_fit' = << >>
            /\ UNCHANGED st
    /\ k' = 1
    /\ UNCHANGED << cfgVars, reads, crt_idx, buff, pos, model_list, round,
                    crt_pm_params, crt_fit, logVars, outVars, endVars,
                    pforVars >>

\* round 0 for the k-th model of the strand
StrandRound0 ==
    /\ pc = "s_round0"
    /\ LET m_name == model_list[st][k]
           old_pm_params == Read.params[st][m_name]
       IN \E o \in TrainOutcomes(old_pm_params) :
            /\ model_fit' = (m_name :> o.fit) @@ model_fit
            /\ reads' = SetRead([Read EXCEPT !.params[st][m_name] = o.params])
            /\ last' = RoundLog(st, m_name, old_pm_params, NegInf, o, 0)
            /\ calls' = Count(calls, st, m_name)
    /\ k' = k + 1
    /\ pc' = IF k = Len(model_list[st]) THEN "s_select" ELSE "s_round0"
    /\ transitions' = train_one_round_transitions(transitions)
    /\ UNCHANGED << fixedVars, crt_idx, buff, pos, st, model_list, round,
                    crt_pm_params, crt_fit, result, outVars, endVars,
                    pforVars >>

\* SelectStrand with the (true or ...) of the strands-together branch
SelectStrandAlways(o) == TRUE \/ o.scale_select_model_single_round

\* if (opts::scale_select_model_single_round)
SelectStrand(o) == o.scale_select_model_single_round

StrandSelect ==
    /\ pc = "s_select"
    /\ IF SelectStrand(opts)
       THEN LET it_max == model_list[st][max_of(model_list[st], model_fit)]
            IN /\ reads' = SetRead([Read EXCEPT
                                !.preferred_model[st] = it_max])
               /\ model_list' = [model_list EXCEPT ![st] = << it_max >>]
       ELSE UNCHANGED << reads, model_list >>
    /\ k' = 1
    /\ pc' = "s_loop"
    /\ UNCHANGED << cfgVars, crt_idx, buff, pos, st, model_fit, round,
                    crt_pm_params, crt_fit, logVars, outVars, endVars,
                    pforVars >>

\* the head of the second model loop: the next model, or the next strand
StrandLoopInit ==
    /\ pc = "s_loop"
    /\ IF k > Len(model_list[st])
       THEN /\ st' = st + 1
            /\ pc' = "s_strand"
            /\ model_fit' = << >>
            /\ calls' = ZeroCalls(models, opts.scale_strands_together)
            /\ UNCHANGED << round, crt_pm_params, crt_fit >>
       ELSE /\ round' = 1
            /\ crt_pm_params' = Read.params[st][model_list[st][k]]
            /\ crt_fit' = model_fit[model_list[st][k]]
            /\ pc' = "s_train"
            /\ UNCHANGED << st, model_fit, calls >>
    /\ last' = NoLog
    /\ result' = NoResult
    /\ UNCHANGED << cfgVars, reads, crt_idx, buff, pos, k, model_list,
                    outVars, endVars, pforVars >>

\* one iteration of the convergence loop of the model
StrandTrain ==
    /\ pc = "s_train"
    /\ \E o \in TrainOutcomes(crt_pm_params) :
         LET step == LoopStep(crt_pm_params, crt_fit, round, o,
                              opts.scale_max_rounds)
         IN /\ crt_pm_params' = step.params
            /\ crt_fit' = step.fit
            /\ round' = step.round
            /\ pc' = IF step.brk THEN "s_persist" ELSE "s_train"
            /\ last' = RoundLog(st, model_list[st][k], crt_pm_params,
                                crt_fit, o, round)
            /\ calls' = Count(calls, st, model_list[st][k])
    /\ transitions' = train_one_round_transitions(transitions)
    /\ UNCHANGED << fixedVars, reads, crt_idx, buff, pos, st, k, model_list,
                    model_fit, result, outVars, endVars, pforVars >>

\* what the model loop writes back after while (true)
PersistStrand(params, s, m_name, p) == [params EXCEPT ![s][m_name] = p]

StrandPersist ==
    /\ pc = "s_persist"
    /\ result' = ResultLog(st, model_list[st][k], crt_pm_params, crt_fit,
                         round)
    /\ reads' = SetRead([Read EXCEPT !.params =
                    PersistStrand(Read.params, st, model_list[st][k],
                                  crt_pm_params)])
    /\ k' = k + 1
    /\ round' = 0
    /\ crt_pm_params' = DefaultParams
    /\ crt_fit' = NegInf
    /\ pc' = "s_loop"
    /\ UNCHANGED << cfgVars, crt_idx, buff, pos, st, model_list, model_fit,
                    last, calls, outVars,
                    endVars, pforVars >>

\* read_summary.drop_events() ends process_item; the worker takes the next
\* item of its chunk, or asks for a new chunk
RescaleDrop ==
    /\ pc = "r_drop"
    /\ reads' = SetRead([Read EXCEPT !.events = [s \in Strands |-> 0],
                                     !.loaded = FALSE])
    /\ IF pos < Len(buff)
       THEN /\ pos' = pos + 1
            /\ pc' = "r_item"
            /\ UNCHANGED buff
       ELSE /\ pos' = 1
            /\ buff' = << >>
            /\ pc' = "r_get"
    /\ st' = 0
    /\ k' = 0
    /\ model_list' = [s \in Strands |-> << >>]
    /\ model_fit' = << >>
    /\ round' = 0
    /\ crt_pm_params' = DefaultParams
    /\ crt_fit' = NegInf
    /\ calls' = ZeroCalls(models, opts.scale_strands_together)
    /\ UNCHANGED << cfgVars, crt_idx, last, result, outVars, endVars,
                    pforVars >>

(***************************************************************************)
(* The basecalling pass.                                                   *)
(***************************************************************************)
BasecallGate ==
    /\ pc = "basecall_gate"
    /\ pc' = IF build = "legacy" \/ DoBasecall(opts)
             THEN "b_get" ELSE "stats"
    /\ crt_idx' = 0
    /\ buff' = << >>
    /\ UNCHANGED << cfgVars, reads, pos, loopVars, logVars, outVars,
                    endVars, pforVars >>

\* get_item of basecall_reads
BasecallGetItem ==
    /\ pc = "b_get"
    /\ IF crt_idx >= Len(reads) \/ Len(buff) >= chunk_size
       THEN /\ pc' = IF buff = << >> THEN "stats" ELSE "b_item"
            /\ UNCHANGED << crt_idx, buff >>
       ELSE /\ buff' = Append(buff, crt_idx)
            /\ crt_idx' = crt_idx + 1
            /\ pc' = "b_get"
    /\ pos' = 1
    /\ UNCHANGED << cfgVars, reads, loopVars, logVars, outVars, endVars,
                    pforVars >>

\* the head of process_item: load_events
BasecallBegin ==
    /\ pc = "b_item"
    /\ reads' = SetRead([Read EXCEPT !.events = LoadedEvents(Read),
                                     !.loaded = TRUE])
    /\ st' = 0
    /\ pc' = "b_strand"
    /\ UNCHANGED << cfgVars, crt_idx, buff, pos, k, model_list, model_fit,
                    round, crt_pm_params, crt_fit, logVars, outVars,
                    endVars, pforVars >>

\* vit.base_seq(): the bases Viterbi decodes with model m_name scaled by p
base_seq(m_name, p) == [ model |-> m_name, params |-> p ]

\* operator< of tuple< float, string, string >, the third field being a
\* function of the second
TupleLess(x, y) ==
    \/ x[1] < y[1]
    \/ (x[1] = y[1] /\ Rank(x[2]) < Rank(y[2]))

Insert(sorted, x) ==
    LET below == SelectSeq(sorted, LAMBDA y : ~TupleLess(x, y))
        above == SelectSeq(sorted, LAMBDA y : TupleLess(x, y))
    IN below \o << x >> \o above

\* sort(results.begin(), results.end())
Sort(deque) ==
    LET F[i \in 0..Len(deque)] ==
            IF i = 0 THEN << >> ELSE Insert(F[i - 1], deque[i])
    IN F[Len(deque)]

\* the results deque of a strand: one Viterbi run per model of the sublist
Results(sublist, params, prob) ==
    [i \in DOMAIN sublist |->
        << prob[sublist[i]], sublist[i],
           base_seq(sublist[i], params[sublist[i]]) >>]

\* Best taking results.front()
Front(sorted) == sorted[1]

\* results.back()
Best(sorted) == sorted[Len(sorted)]

\* write_fasta(oss, "<read_id>:<base_file_name>:<st>", base_seq)
FastaRecord(read_id, s, bases) == [ read |-> read_id, strand |-> s, seq |-> bases ]

SublistNames(sublist) == {sublist[i] : i \in DOMAIN sublist}

\* one iteration of for (st ...) of process_item, or its end
BasecallStrand ==
    /\ pc = "b_strand"
    /\ build = "nanocall"
    /\ st < 2
    /\ IF NotEnoughEvents(Read.events[st])
       THEN UNCHANGED << reads, results, oss >>
       ELSE LET model_sublist ==
                    Shortlist(models, Read.preferred_model[st], st)
            IN \E prob \in [SublistNames(model_sublist) -> ProbVals] :
                 LET sorted == Sort(Results(model_sublist, Read.params[st],
                                            prob))
                     best == Best(sorted)
                 IN /\ results' = sorted
                    /\ reads' = SetRead([Read EXCEPT
                                    !.preferred_model[st] = best[2]])
                    /\ oss' = Append(oss, FastaRecord(Read.read_id, st,
                                                      best[3]))
    /\ st' = st + 1
    /\ UNCHANGED << cfgVars, pc, crt_idx, buff, pos, k, model_list,
                    model_fit, round, crt_pm_params, crt_fit, logVars, os,
                    endVars, pforVars >>

\* src/nanocall.cpp: if (read_summary.events[st].size() < 100) continue
LegacyTooShort(n) == n < legacy_min_len

\* initialize parameters if not existing
LegacyInitParams(params, sublist) ==
    [key \in SublistNames(sublist) \ DOMAIN params |-> DefaultParams]
    @@ params

\* src/nanocall.cpp: one iteration of for (st ...) of process_item
LegacyBasecallStrand ==
    /\ pc = "b_strand"
    /\ build = "legacy"
    /\ st < 2
    /\ IF LegacyTooShort(Read.events[st])
       THEN UNCHANGED << reads, results, oss >>
       ELSE LET model_sublist ==
                    Shortlist(models, Read.preferred_model[st], st)
                params == LegacyInitParams(Read.params[st], model_sublist)
            IN \E prob \in [SublistNames(model_sublist) -> ProbVals] :
                 LET sorted == Sort(Results(model_sublist, params, prob))
                     best == Best(sorted)
                 IN /\ results' = sorted
                    /\ reads' = SetRead([Read EXCEPT !.params[st] = params])
                    /\ oss' = Append(oss, FastaRecord(Read.read_id, st,
                                                      best[3]))
    /\ st' = st + 1
    /\ UNCHANGED << cfgVars, pc, crt_idx, buff, pos, k, model_list,
                    model_fit, round, crt_pm_params, crt_fit, logVars, os,
                    endVars, pforVars >>

\* the end of process_item (with drop_events, which src/nanocall.cpp does
\* not call); after the last item of the chunk, output_chunk
BasecallEnd ==
    /\ pc = "b_strand"
    /\ st >= 2
    /\ reads' = IF build = "nanocall"
                THEN SetRead([Read EXCEPT !.events = [s \in Strands |-> 0],
                                          !.loaded = FALSE])
                ELSE reads
    /\ IF pos < Len(buff)
       THEN /\ pos' = pos + 1
            /\ pc' = "b_item"
       ELSE /\ pos' = 1
            /\ pc' = "b_out"
    /\ results' = << >>
    /\ UNCHANGED << cfgVars, crt_idx, buff, loopVars, logVars, oss, os,
                    endVars, pforVars >>

\* output_chunk writing to a sink opened anew
output_chunk_anew(sink, out) == out

\* output_chunk(oss): *os_p << oss.str()
output_chunk(sink, out) == sink \o out

OutputChunk ==
    /\ pc = "b_out"
    /\ os' = output_chunk(os, oss)
    /\ oss' = << >>
    /\ buff' = << >>
    /\ pc' = "b_get"
    /\ UNCHANGED << cfgVars, reads, crt_idx, pos, loopVars, logVars, results,
                    endVars, pforVars >>

\* print stats; return EXIT_SUCCESS
\* s.write_tsv(ofs): the line of a read in the stats file
write_tsv(s) ==
    [ read_id |-> s.read_id,
      preferred_model |-> s.preferred_model,
      params |-> s.params ]

\* the stats file: opened if --stats is given, one line per read
StatsFile(o, rs) ==
    IF o.stats
    THEN [ opened |-> TRUE, lines |-> [i \in DOMAIN rs |-> write_tsv(rs[i])] ]
    ELSE NoFile

Finish ==
    /\ pc = "stats"
    /\ stats_file' = StatsFile(opts, reads)
    /\ exit_code' = EXIT_SUCCESS
    /\ pc' = "exit"
    /\ UNCHANGED << cfgVars, reads, crt_idx, buff, pos, loopVars, logVars,
                    outVars, pforVars >>

Next ==
    \/ InitFiles
    \/ InitReads
    \/ RescaleGate
    \/ RescaleGetItem
    \/ RescaleBegin
    \/ TogetherRound0
    \/ TogetherSelect
    \/ TogetherLoopInit
    \/ TogetherTrain
    \/ TogetherPersist
    \/ StrandHead
    \/ StrandRound0
    \/ StrandSelect
    \/ StrandLoopInit
    \/ StrandTrain
    \/ StrandPersist
    \/ RescaleDrop
    \/ BasecallGate
    \/ BasecallGetItem
    \/ BasecallBegin
    \/ BasecallStrand
    \/ LegacyBasecallStrand
    \/ BasecallEnd
    \/ OutputChunk
    \/ Finish

Spec == Init /\ [][Next]_vars

(***************************************************************************)
(* The two passes under the pfor harness: num_threads workers, each taking *)
(* a chunk of items under the harness lock, processing it, and handing its *)
(* output over in the order the chunks were taken.  An item is processed   *)
(* in two steps, load_events and the rest of process_item.                 *)
(***************************************************************************)
\* files of SpecPfor: the read id is not the position in the input
FileId(i, n) == n - i

FileLens(i) ==
    IF i % 3 = 0 THEN Bounds(min_read_len - 1, min_read_len)
    ELSE IF i % 3 = 1 THEN Bounds(min_read_len, min_read_len)
    ELSE Bounds(min_read_len, min_read_len - 1)

NoPreferred == (0 :> NoName) @@ (1 :> NoName)

PforFiles(n, ms, together) ==
    [i \in 1..n |->
        Fast5_Summary(FileId(i, n), ms, together, i # 1, FileLens(i),
                      NoPreferred)]

FileCounts == {0, 1, 2, MaxFiles}

\* the file counts of SpecPforFair: none, one, and enough for a second chunk
MaxFairFiles == 12
FairFileCounts == {0, 1, MaxFairFiles}

\* a dictionary with one model for each strand
OneModelPerStrand ==
    CHOOSE ms \in ModelDicts :
        \A s \in Strands : Len(Applicable(ms, s)) = 1

AllSwitches ==
    { Switches(a, t, r, o) :
        a \in BOOLEAN, t \in BOOLEAN, r \in BOOLEAN, o \in BOOLEAN }

PforOpts ==
    { WithValues(sw, n, 1) : sw \in AllSwitches, n \in 1..MaxThreads }

InitPforWith(counts) ==
    /\ build \in {"nanocall", "legacy"}
    /\ opts \in IF build = "nanocall" THEN PforOpts
                ELSE { [LegacyOpts EXCEPT !.num_threads = n] :
                          n \in 1..MaxThreads }
    /\ models = OneModelPerStrand
    /\ \E n \in counts :
          files = PforFiles(n, models, opts.scale_strands_together)
    /\ InitLocals

InitPfor == InitPforWith(FileCounts)

Worker(at, items, cid) ==
    [ pc |-> at, buff |-> items, pos |-> 1, cid |-> cid, oss |-> << >> ]

\* pfor(num_threads, chunk_size, ...): the workers start
PforStart(pass) ==
    /\ wk' = [w \in 1..opts.num_threads |-> Worker("get", << >>, 0)]
    /\ crt_idx' = 0
    /\ cid_in' = 0
    /\ cid_out' = 0
    /\ trace' = [trace EXCEPT !.passes = Append(@, pass),
                              !.finished = << >>]

\* if (accurate_scaling or ...) rescale_reads(models, transitions, reads)
PforRescaleGate ==
    /\ pc = "rescale_gate"
    /\ IF build = "nanocall" /\ DoRescale(opts)
       THEN /\ pc' = "rescale"
            /\ PforStart("rescale")
       ELSE /\ pc' = "basecall_gate"
            /\ UNCHANGED << crt_idx, pforVars >>
    /\ UNCHANGED << cfgVars, reads, buff, pos, loopVars, logVars, outVars,
                    endVars >>

\* if (not scale_only) basecall_reads(models, transitions, reads)
PforBasecallGate ==
    /\ pc = "basecall_gate"
    /\ IF build = "legacy" \/ DoBasecall(opts)
       THEN /\ pc' = "basecall"
            /\ PforStart("basecall")
       ELSE /\ pc' = "stats"
            /\ UNCHANGED << crt_idx, pforVars >>
    /\ UNCHANGED << cfgVars, reads, buff, pos, loopVars, logVars, outVars,
                    endVars >>

\* get_item handing out the indices from the last one down
get_item_backwards(idx, size) ==
    [ ok |-> idx < size,
      i |-> size - 1 - idx,
      crt_idx |-> IF idx < size THEN idx + 1 ELSE idx ]

\* get_item without the increment of crt_idx
get_item_again(idx, size) ==
    [ ok |-> idx < size,
      i |-> idx,
      crt_idx |-> idx ]

\* get_item giving up one index early
get_item_one_short(idx, size) ==
    [ ok |-> idx + 1 < size,
      i |-> idx,
      crt_idx |-> IF idx + 1 < size THEN idx + 1 ELSE idx ]

\* get_item(i): whether an item is left, the item, and crt_idx afterwards
get_item(idx, size) ==
    [ ok |-> idx < size,
      i |-> idx,
      crt_idx |-> IF idx < size THEN idx + 1 ELSE idx ]

\* get_item called, under the lock, until n items are taken or it fails;
\* each call starts from the value of crt_idx the call before it left
RECURSIVE Chunk(_, _, _)
Chunk(idx, size, n) ==
    IF n = 0 \/ ~get_item(idx, size).ok THEN << >>
    ELSE CHOOSE items \in
             { << get_item(idx, size).i >> \o Chunk(next_idx, size, n - 1) :
                 next_idx \in {get_item(idx, size).crt_idx} } : TRUE

GetChunk(w) ==
    /\ pc \in {"rescale", "basecall"}
    /\ wk[w].pc = "get"
    /\ LET items == Chunk(crt_idx, Len(reads), chunk_size)
       IN IF items = << >>
          THEN /\ wk' = [wk EXCEPT ![w].pc = "done"]
               /\ UNCHANGED << crt_idx, cid_in >>
          ELSE /\ wk' = [wk EXCEPT ![w] = Worker("item", items, cid_in)]
               /\ crt_idx' = crt_idx + Len(items)
               /\ cid_in' = cid_in + 1
    /\ UNCHANGED << cfgVars, reads, pc, buff, pos, loopVars, logVars,
                    outVars, endVars, cid_out, trace >>

Item(w) == wk[w].buff[wk[w].pos]

\* the head of process_item of either pass: load_events
LoadItem(w) ==
    /\ pc \in {"rescale", "basecall"}
    /\ wk[w].pc = "item"
    /\ reads' = [reads EXCEPT ![Item(w) + 1] =
                    [@ EXCEPT !.events = LoadedEvents(reads[Item(w) + 1]),
                              !.loaded = TRUE]]
    /\ wk' = [wk EXCEPT ![w].pc = "loaded"]
    /\ trace' = [trace EXCEPT !.began[pc] = @ \cup {Item(w)}]
    /\ UNCHANGED << cfgVars, pc, crt_idx, buff, pos, loopVars, logVars,
                    outVars, endVars, cid_in, cid_out >>

\* process_item ending without drop_events
KeptLoaded(r) == r

\* drop_events
Dropped(r) == [r EXCEPT !.events = [s \in Strands |-> 0], !.loaded = FALSE]

\* the worker goes to the next item of its chunk, or has its chunk done
Advance(w, out) ==
    IF wk[w].pos < Len(wk[w].buff)
    THEN [wk EXCEPT ![w].pc = "item", ![w].pos = @ + 1, ![w].oss = out]
    ELSE [wk EXCEPT ![w].pc = "wait", ![w].oss = out]

Ended(w) ==
    [trace EXCEPT !.ended[pc] = @ \cup {Item(w)},
                  !.finished = IF wk[w].pos < Len(wk[w].buff) THEN @
                               ELSE Append(@, wk[w].cid)]

\* train_one_round as a function of the events it is given
Fitted(ev) == (ev[0] + ev[1]) % (MaxParam + 1)

\* what process_item of rescale_reads leaves in the summary when every
\* model list has one model: the parameters trained for each strand long
\* enough (for the pair when both are and the strands are scaled
\* together), and the preferred models where a model was selected
Rescaled(r, o) ==
    LET ev == r.events
        m_name == [s \in Strands |->
                     Shortlist(models, r.preferred_model[s], s)[1]]
    IN IF /\ o.scale_strands_together
          /\ ev[0] >= min_read_len
          /\ ev[1] >= min_read_len
       THEN [r EXCEPT
               !.params = PersistTogether(@, << m_name[0], m_name[1] >>,
                                          Fitted(ev)),
               !.preferred_model = m_name]
       ELSE [r EXCEPT
               !.params = [s \in 0..2 |->
                   IF s \in Strands /\ ~TooShort(ev[s])
                   THEN PersistStrand(r.params, s, m_name[s],
                                      Fitted(ev))[s]
                   ELSE r.params[s]],
               !.preferred_model = [s \in Strands |->
                   IF ~TooShort(ev[s]) /\ SelectStrand(o)
                   THEN m_name[s] ELSE r.preferred_model[s]]]

\* process_item of rescale_reads after load_events
RescaleItem(w) ==
    /\ pc = "rescale"
    /\ wk[w].pc = "loaded"
    /\ reads' = [reads EXCEPT ![Item(w) + 1] = Dropped(Rescaled(@, opts))]
    /\ wk' = Advance(w, << >>)
    /\ trace' = Ended(w)
    /\ transitions' = train_one_round_transitions(transitions)
    /\ UNCHANGED << fixedVars, pc, crt_idx, buff, pos, loopVars, logVars,
                    outVars, endVars, cid_in, cid_out >>

\* vit.path_probability() as a function of what Viterbi is given
PathProb(ev, m_name, p) == (ev + Rank(m_name) + p) % (MaxProb + 1)

\* one iteration of for (st ...) of process_item of basecall_reads, of
\* either build, on the summary and the chunk output so far
Basecalled(acc, s) ==
    LET r == acc.read
    IN IF \/ build = "nanocall" /\ NotEnoughEvents(r.events[s])
          \/ build = "legacy" /\ LegacyTooShort(r.events[s])
       THEN acc
       ELSE LET model_sublist == Shortlist(models, r.preferred_model[s], s)
                params == IF build = "legacy"
                          THEN LegacyInitParams(r.params[s], model_sublist)
                          ELSE r.params[s]
                prob == [m \in SublistNames(model_sublist) |->
                            PathProb(r.events[s], m, params[m])]
                best == Best(Sort(Results(model_sublist, params, prob)))
            IN [ read |-> [r EXCEPT
                     !.params[s] = params,
                     !.preferred_model[s] =
                         IF build = "nanocall" THEN best[2] ELSE @],
                 oss |-> Append(acc.oss,
                                FastaRecord(r.read_id, s, best[3])) ]

\* process_item of basecall_reads after load_events
BasecallItem(w) ==
    /\ pc = "basecall"
    /\ wk[w].pc = "loaded"
    /\ \E first \in {Basecalled([read |-> reads[Item(w) + 1],
                                   oss |-> wk[w].oss], 0)} :
       \E acc \in {Basecalled(first, 1)} :
          /\ reads' = [reads EXCEPT ![Item(w) + 1] =
                          IF build = "nanocall" THEN Dropped(acc.read)
                          ELSE acc.read]
          /\ wk' = Advance(w, acc.oss)
    /\ trace' = Ended(w)
    /\ UNCHANGED << cfgVars, pc, crt_idx, buff, pos, loopVars, logVars,
                    outVars, endVars, cid_in, cid_out >>

\* the worker's chunk is the next to be handed to output_chunk
OutputReady(w) == wk[w].cid = cid_out

\* output_chunk(oss) of the chunk whose turn it is (rescale_reads has no
\* output_chunk and no output)
WriteChunk(w) ==
    /\ pc \in {"rescale", "basecall"}
    /\ wk[w].pc = "wait"
    /\ OutputReady(w)
    /\ os' = output_chunk(os, wk[w].oss)
    /\ cid_out' = cid_out + 1
    /\ wk' = [wk EXCEPT ![w] = Worker("get", << >>, 0)]
    /\ UNCHANGED << cfgVars, reads, pc, crt_idx, buff, pos, loopVars,
                    logVars, results, oss, endVars, cid_in, trace >>

\* pfor returns when every worker has found no item left
PforJoin ==
    /\ pc \in {"rescale", "basecall"}
    /\ \A w \in DOMAIN wk : wk[w].pc = "done"
    /\ pc' = IF pc = "rescale" THEN "basecall_gate" ELSE "stats"
    /\ wk' = IdleWorkers
    /\ UNCHANGED << cfgVars, reads, crt_idx, buff, pos, loopVars, logVars,
                    outVars, endVars, cid_in, cid_out, trace >>

NextPfor ==
    \/ InitFiles
    \/ InitReads
    \/ PforRescaleGate
    \/ PforBasecallGate
    \/ \E w \in DOMAIN wk : GetChunk(w)
    \/ \E w \in DOMAIN wk : LoadItem(w)
    \/ \E w \in DOMAIN wk : RescaleItem(w)
    \/ \E w \in DOMAIN wk : BasecallItem(w)
    \/ \E w \in DOMAIN wk : WriteChunk(w)
    \/ PforJoin
    \/ Finish

SpecPfor == InitPfor /\ [][NextPfor]_vars

\* the steps of the main thread, and those of one worker thread
MainStep ==
    \/ InitFiles
    \/ InitReads
    \/ PforRescaleGate
    \/ PforBasecallGate
    \/ PforJoin
    \/ Finish

WorkerStep(w) ==
    /\ w \in DOMAIN wk
    /\ \/ GetChunk(w)
       \/ LoadItem(w)
       \/ RescaleItem(w)
       \/ BasecallItem(w)
       \/ WriteChunk(w)

\* SpecPfor with every thread scheduled again and again while it can run
SpecPforFair ==
    /\ InitPforWith(FairFileCounts)
    /\ [][NextPfor]_vars
    /\ WF_vars(MainStep)
    /\ \A w \in 1..MaxThreads : WF_vars(WorkerStep(w))

(***************************************************************************)
(* init_models: the model names given are parsed one by one, the lists     *)
(* are checked, and the models are loaded, keyed by file name.             *)
(***************************************************************************)
ArgChars == {"0", "1", "2", "3", ":", "x", "y"}

ArgStrings == UNION { [1..n -> ArgChars] : n \in 0..MaxArgLen }

\* names of the format, of strand 0, 1 and 2, of two files
GoodArgs ==
    { << d, ":", f >> : d \in {"0", "1", "2"}, f \in {"x", "y"} }

ArgLists ==
    { << >> }
    \cup { << a >> : a \in ArgStrings }
    \cup { << u, a >> : u \in GoodArgs, a \in ArgStrings }
    \cup { << u, v, w >> : u \in GoodArgs, v \in GoodArgs, w \in GoodArgs }

\* parse_model_name without the test of the colon
parse_model_name_no_colon(str) ==
    IF Len(str) < 3 \/ str[1] \notin {"0", "1", "2"}
    THEN [ ok |-> FALSE ]
    ELSE [ ok |-> TRUE,
           st |-> IF str[1] = "0" THEN 0 ELSE IF str[1] = "1" THEN 1 ELSE 2,
           file |-> SubSeq(str, 3, Len(str)) ]

\* parse_model_name(s): exit(EXIT_FAILURE), or the strand and s.substr(2)
parse_model_name(str) ==
    IF Len(str) < 3 \/ str[1] \notin {"0", "1", "2"} \/ str[2] # ":"
    THEN [ ok |-> FALSE ]
    ELSE [ ok |-> TRUE,
           st |-> IF str[1] = "0" THEN 0 ELSE IF str[1] = "1" THEN 1 ELSE 2,
           file |-> SubSeq(str, 3, Len(str)) ]

\* Builtin_Model: the built-in models
BuiltinModels == OneModelPerStrand

InitModels ==
    /\ build \in {"nanocall", "legacy"}
    /\ opts = IF build = "nanocall"
              THEN WithValues(Switches(FALSE, FALSE, FALSE, FALSE), 1, 1)
              ELSE LegacyOpts
    /\ models = << >>
    /\ files = << >>
    /\ \E l \in ArgLists : \E n \in 0..Len(l) :
          model_args = [ fn |-> SubSeq(l, 1, n),
                         fofn |-> SubSeq(l, n + 1, Len(l)) ]
    /\ given = NoneGiven
    /\ NoRecord
    /\ NoTraining
    /\ InitState("im_fn")

\* one name parsed and put on the list of its strand, or the exit
Parsed(str) ==
    LET p == parse_model_name(str)
    IN IF p.ok
       THEN /\ given' = [given EXCEPT !.list[p.st] = Append(@, p.file),
                                      !.next = @ + 1]
            /\ UNCHANGED << pc, exit_code >>
       ELSE /\ exit_code' = EXIT_FAILURE
            /\ pc' = "exit"
            /\ UNCHANGED given

\* for (const auto& s : opts::model_fn.get())
ParseModelFn ==
    /\ pc = "im_fn"
    /\ IF given.next > Len(model_args.fn)
       THEN /\ pc' = "im_fofn"
            /\ given' = [given EXCEPT !.next = 1]
            /\ UNCHANGED exit_code
       ELSE Parsed(model_args.fn[given.next])
    /\ UNCHANGED << build, opts, models, files, model_args, reads, crt_idx,
                    buff, pos, loopVars, logVars, outVars, stats_file,
                    pforVars,
                    fastaVars, trainVars, transitions >>

\* while (getline(ifs, s))
ParseModelFofn ==
    /\ pc = "im_fofn"
    /\ IF given.next > Len(model_args.fofn)
       THEN /\ pc' = "im_check"
            /\ given' = [given EXCEPT !.next = 1]
            /\ UNCHANGED exit_code
       ELSE Parsed(model_args.fofn[given.next])
    /\ UNCHANGED << build, opts, models, files, model_args, reads, crt_idx,
                    buff, pos, loopVars, logVars, outVars, stats_file,
                    pforVars,
                    fastaVars, trainVars, transitions >>

\* models were specified only for one strand
OnlyOneStrand(list) ==
    list[2] = << >> /\ ((list[0] = << >>) # (list[1] = << >>))

NoneSpecified(list) ==
    list[0] = << >> /\ list[1] = << >> /\ list[2] = << >>

\* the check of the lists, and the choice between them and the built-ins
CheckStrands ==
    /\ pc = "im_check"
    /\ IF OnlyOneStrand(given.list)
       THEN /\ exit_code' = EXIT_FAILURE
            /\ pc' = "exit"
       ELSE /\ pc' = IF NoneSpecified(given.list) THEN "im_builtin"
                    ELSE "im_load"
            /\ UNCHANGED exit_code
    /\ UNCHANGED << build, opts, models, files, argVars, reads, crt_idx,
                    buff, pos, loopVars, logVars, outVars, stats_file,
                    pforVars,
                    fastaVars, trainVars, transitions >>

\* models[pm_name] = move(pm), with pm.strand() = st
Loaded_Model(ms, pm_name, strand) ==
    [n \in DOMAIN ms \cup {pm_name} |->
        IF n = pm_name THEN strand ELSE ms[n]]

\* for (st ...) for (e : model_list[st]): one model loaded
LoadModel ==
    /\ pc = "im_load"
    /\ IF given.st > 2
       THEN /\ pc' = "im_done"
            /\ UNCHANGED << models, given >>
       ELSE IF given.next > Len(given.list[given.st])
       THEN /\ given' = [given EXCEPT !.st = @ + 1, !.next = 1]
            /\ UNCHANGED << models, pc >>
       ELSE /\ models' = Loaded_Model(models,
                                      given.list[given.st][given.next],
                                      given.st)
            /\ given' = [given EXCEPT !.next = @ + 1]
            /\ UNCHANGED pc
    /\ UNCHANGED << build, opts, files, model_args, reads, crt_idx, buff,
                    pos, loopVars, logVars, outVars, endVars, pforVars,
                    fastaVars, trainVars, transitions >>

\* use built-in models
LoadBuiltin ==
    /\ pc = "im_builtin"
    /\ models' = BuiltinModels
    /\ pc' = "im_done"
    /\ UNCHANGED << build, opts, files, argVars, reads, crt_idx, buff, pos,
                    loopVars, logVars, outVars, endVars, pforVars,
                    fastaVars, trainVars, transitions >>

NextModels ==
    \/ ParseModelFn
    \/ ParseModelFofn
    \/ CheckStrands
    \/ LoadModel
    \/ LoadBuiltin

SpecModels == InitModels /\ [][NextModels]_vars

(***************************************************************************)
(* The event sequences process_item of rescale_reads trains on, for every  *)
(* number of events of each strand and every scale_num_events within the   *)
(* bounds.  The events of a strand are numbered from 1.                    *)
(***************************************************************************)
MaxEvents == 6
MaxNumEvents == 7

\* a summary whose strands hold n0 and n1 loaded events
WithEvents(n0, n1) ==
    [ read_id |-> 0,
      events |-> (0 :> [i \in 1..n0 |-> i]) @@ (1 :> [i \in 1..n1 |-> i]) ]

InitTrain ==
    /\ build = "nanocall"
    /\ opts = WithValues(Switches(TRUE, FALSE, FALSE, FALSE), 1, 1)
    /\ models = << >>
    /\ files = << >>
    /\ model_args = NoArgs
    /\ given = NoneGiven
    /\ NoRecord
    /\ scale_num_events \in 0..MaxNumEvents
    /\ train_event_seqs = NoTrainSeqs
    /\ \E n0 \in 0..MaxEvents, n1 \in 0..MaxEvents :
          InitStateWith("train_seqs", << WithEvents(n0, n1) >>)

Min(a, b) == IF a < b THEN a ELSE b

\* min((size_t)opts::scale_num_events.get(), events[st].size())
n_events(num, events) == Min(num, Len(events))

\* TrainSeqs taking n events, not n / 2, at each end
TrainSeqsWhole(events, n) ==
    << SubSeq(events, 1, n),
       SubSeq(events, Len(events) - n + 1, Len(events)) >>

\* the two sequences emplaced for a strand: from begin() to begin() + n / 2
\* and from end() - n / 2 to end()
TrainSeqs(events, n) ==
    << SubSeq(events, 1, n \div 2),
       SubSeq(events, Len(events) - n \div 2 + 1, Len(events)) >>

\* one iteration of for (st ...) building train_event_seqs
TrainSeqsStrand ==
    /\ pc = "train_seqs"
    /\ st < 2
    /\ IF TooShort(Len(reads[1].events[st]))
       THEN UNCHANGED train_event_seqs
       ELSE train_event_seqs' =
               [train_event_seqs EXCEPT ![st] =
                   TrainSeqs(reads[1].events[st],
                             n_events(scale_num_events,
                                      reads[1].events[st]))]
    /\ st' = st + 1
    /\ UNCHANGED << build, opts, models, files, argVars, fastaVars,
                    transitions, scale_num_events, reads, pc, crt_idx, buff, pos, k,
                    model_list, model_fit, round, crt_pm_params, crt_fit,
                    logVars, outVars, endVars, pforVars >>

\* the loop ends
TrainSeqsEnd ==
    /\ pc = "train_seqs"
    /\ st >= 2
    /\ pc' = "train_seqs_done"
    /\ UNCHANGED << cfgVars, reads, crt_idx, buff, pos, loopVars, logVars,
                    outVars, endVars, pforVars >>

NextTrain ==
    \/ TrainSeqsStrand
    \/ TrainSeqsEnd

SpecTrain == InitTrain /\ [][NextTrain]_vars

(***************************************************************************)
(* write_fasta, on every name, base sequence and line width within the     *)
(* bounds.  The stream os is the sequence of the lines written to it.      *)
(***************************************************************************)
\* bits of unsigned, the type of pos and of fasta_line_width (scaled)
UnsignedBits == 3
UnsignedMax == 2 ^ UnsignedBits - 1

\* base sequences are shorter than half the range of unsigned
MaxSeqLen == 4

\* lines of the stream the model keeps
MaxLines == MaxSeqLen + 2

Bases == {"A", "C"}
BaseSeqs == UNION { [1..n -> Bases] : n \in 0..MaxSeqLen }

\* tmp << read_id << ":" << base_file_name << ":" << st
RecordName(read_id, base_file_name, strand) ==
    << read_id, ":", base_file_name, ":", strand >>

InitFasta ==
    /\ build = "nanocall"
    /\ opts = WithValues(Switches(FALSE, FALSE, FALSE, FALSE), 1, 1)
    /\ models = << >>
    /\ files = << >>
    /\ model_args = NoArgs
    /\ given = NoneGiven
    /\ name \in { RecordName(0, "f", s) : s \in Strands }
    /\ seq \in BaseSeqs
    /\ fasta_line_width \in 0..UnsignedMax
    /\ NoTraining
    /\ InitState("write_fasta")

\* os << line << endl
PutLine(sink, line) ==
    IF Len(sink) < MaxLines THEN Append(sink, line) ELSE sink

\* str.substr(at, n), for at <= str.size()
substr(str, at, n) ==
    SubSeq(str, at + 1, IF at + n < Len(str) THEN at + n ELSE Len(str))

\* os << ">" << name << endl; unsigned pos = 0
WriteHeader ==
    /\ pc = "write_fasta"
    /\ os' = PutLine(os, << ">" >> \o name)
    /\ pos' = 0
    /\ pc' = "wf_loop"
    /\ UNCHANGED << cfgVars, reads, crt_idx, buff, loopVars, logVars,
                    results, oss, endVars, pforVars >>

\* pos += opts::fasta_line_width, in unsigned arithmetic
NextPos(at, width) == (at + width) % (UnsignedMax + 1)

\* one iteration of for (pos ...): pos < seq.size()
WriteLine ==
    /\ pc = "wf_loop"
    /\ pos < Len(seq)
    /\ os' = PutLine(os, substr(seq, pos, fasta_line_width))
    /\ pos' = NextPos(pos, fasta_line_width)
    /\ UNCHANGED << cfgVars, reads, pc, crt_idx, buff, loopVars, logVars,
                    results, oss, endVars, pforVars >>

\* the loop ends: pos >= seq.size()
WriteEnd ==
    /\ pc = "wf_loop"
    /\ pos >= Len(seq)
    /\ pc' = "wf_done"
    /\ UNCHANGED << cfgVars, reads, crt_idx, buff, pos, loopVars, logVars,
                    outVars, endVars, pforVars >>

NextFasta ==
    \/ WriteHeader
    \/ WriteLine
    \/ WriteEnd

\* write_fasta runs on: a single thread that is never held up
SpecFasta == InitFasta /\ [][NextFasta]_vars /\ WF_vars(NextFasta)

(***************************************************************************)
(* Properties of the rescaling pass.                                       *)
(***************************************************************************)
LoopPcs == {"s_train", "t_train"}
PersistPcs == {"s_persist", "t_persist"}
PersistedPcs == {"s_loop", "t_loop"}

\* the round logged last is a round >= 1 that returned new_fit < old_fit
RegressionRound ==
    last.round >= 1 /\ ~last.done /\ last.crt_fit < last.old_fit

\* the round logged last is a round >= 1 in which done was signaled
DoneRound == last.round >= 1 /\ last.done

\* the round logged last was the last one of its loop, and what the loop
\* writes back is what the round started with
LastRoundDiscarded ==
    /\ pc \in PersistPcs \cup PersistedPcs
    /\ calls[last.strand][last.model] = last.round + 1
    /\ pc \in PersistedPcs =>
         /\ Read.params[last.strand][last.model] = last.old_params
         /\ result.strand = last.strand
         /\ result.model = last.model
         /\ result.parameters = last.old_params
         /\ last.strand = 2 =>
              /\ Read.params[0][Read.preferred_model[0]] = last.old_params
              /\ Read.params[1][Read.preferred_model[1]] = last.old_params

C3_DoneStopsWithStartParams == DoneRound => LastRoundDiscarded

C3_Witness ==
    /\ DoneRound
    /\ pc = "t_loop"
    /\ last.round = 2
    /\ last.old_params # DefaultParams
    /\ Read.params[2][last.model] = last.old_params

\* C4: the number of train_one_round calls made for a model, round 0
\* included, never exceeds scale_max_rounds.
C4_CallsWithinMaxRounds ==
    \A s \in DOMAIN calls : \A key \in DOMAIN calls[s] :
        calls[s][key] <= opts.scale_max_rounds

\* C5: with scale-max-rounds = 0 the rescaling pass leaves every
\* params[s][m] of the read as it was before the pass.
C5_ZeroRoundsKeepParams ==
    (pc = "basecall_gate" /\ opts.scale_max_rounds = 0 /\ reads # << >>)
        => reads[1].params = files[1].params

\* the pass has scaled the two strands of the read together
ScaledTogether ==
    /\ build = "nanocall"
    /\ opts.scale_strands_together
    /\ reads # << >>
    /\ \A s \in Strands : LoadedEvents(reads[1])[s] >= min_read_len
    /\ pc \in {"r_drop", "basecall_gate", "b_get", "b_item", "b_strand",
               "b_out", "stats", "exit"}

\* C9: when the strands are scaled together, after round 0 the preferred
\* models are a pair of maximal round-0 fit, whatever
\* scale-select-model-single-round says, the model lists hold that pair
\* alone and every round >= 1 trains that pair.
C9_TogetherAlwaysSelects ==
    pc \in {"t_loop", "t_train", "t_persist"} =>
        LET it_max == << Read.preferred_model[0], Read.preferred_model[1] >>
        IN /\ it_max \in DOMAIN model_fit
           /\ \A pr \in DOMAIN model_fit : model_fit[pr] <= model_fit[it_max]
           /\ model_list[0] = << it_max[1] >>
           /\ model_list[1] = << it_max[2] >>
           /\ last.round >= 1 => last.model = PairKey(it_max)
           /\ \A key \in DOMAIN calls[2] :
                key # PairKey(it_max) => calls[2][key] <= 1

C9_Witness ==
    /\ pc = "t_persist"
    /\ ~opts.scale_select_model_single_round
    /\ last.round >= 1
    /\ \E pr \in DOMAIN model_fit :
         model_fit[pr] < model_fit[<< Read.preferred_model[0],
                                      Read.preferred_model[1] >>]

\* the three entries the strands-together loop writes agree
TogetherParamsAgree(r) ==
    LET m0 == r.preferred_model[0]
        m1 == r.preferred_model[1]
    IN /\ m0 \in DOMAIN r.params[0]
       /\ m1 \in DOMAIN r.params[1]
       /\ Concat(m0, m1) \in DOMAIN r.params[2]
       /\ r.params[0][m0] = r.params[2][Concat(m0, m1)]
       /\ r.params[1][m1] = r.params[2][Concat(m0, m1)]

\* C10: once the rescaling pass has scaled the two strands of a read
\* together, params[0][preferred_model[0]], params[1][preferred_model[1]]
\* and params[2][preferred_model[0] + '+' + preferred_model[1]] are equal,
\* and they stay equal through the basecalling pass.
C10_TogetherParamsAgree == ScaledTogether => TogetherParamsAgree(reads[1])

C10_Witness ==
    /\ ScaledTogether
    /\ pc = "exit"
    /\ Len(os) = 2
    /\ reads[1].params[0][reads[1].preferred_model[0]] # DefaultParams

(***************************************************************************)
(* Properties of the basecalling pass.                                     *)
(***************************************************************************)
StrandsOf(records) == [i \in DOMAIN records |-> records[i].strand]

\* the strands below n with at least min_read_len events, in order
LongStrandsBelow(r, n) ==
    SelectSeq(<< 0, 1 >>,
              LAMBDA s : s < n /\ LoadedEvents(r)[s] >= min_read_len)

\* C7: the basecaller writes, for the read it processes, one record for
\* each strand of at least min_read_len events and none for a shorter
\* strand, strand 0 before strand 1 (at every strand of the loop, and when
\* the read is done).
C7_OneRecordPerLongStrand ==
    (build = "nanocall" /\ pc \in {"b_strand", "b_out"}) =>
        /\ StrandsOf(oss) = LongStrandsBelow(reads[1], st)
        /\ \A i \in DOMAIN oss : oss[i].read = reads[1].read_id

C7_Witness ==
    /\ build = "nanocall"
    /\ pc = "b_out"
    /\ LoadedEvents(reads[1])[0] < min_read_len
    /\ StrandsOf(oss) = << 1 >>

\* the shortlist of a strand as the basecaller is said to form it
SaidShortlist(pref, s) ==
    IF pref \in DOMAIN models THEN {pref}
    ELSE {n \in DOMAIN models : models[n] = s \/ models[n] = 2}

\* this step is the basecaller's loop iteration of a strand long enough
BasecallsStrand ==
    /\ pc = "b_strand"
    /\ st < 2
    /\ st' = st + 1
    /\ Read.events[st] >=
         (IF build = "nanocall" THEN min_read_len ELSE legacy_min_len)

\* the step ran Viterbi on the said shortlist and wrote the bases of a
\* model of maximal path probability; where sets_preferred, it also made
\* that model the preferred one
WinnerWritten(sets_preferred) ==
    /\ Len(oss') = Len(oss) + 1
    /\ {results'[i][2] : i \in DOMAIN results'} =
           SaidShortlist(Read.preferred_model[st], st)
    /\ \E i \in DOMAIN results' :
         /\ \A j \in DOMAIN results' : results'[j][1] <= results'[i][1]
         /\ results'[i][3].model = results'[i][2]
         /\ oss'[Len(oss')].strand = st
         /\ oss'[Len(oss')].seq = results'[i][3]
         /\ sets_preferred =>
              reads'[buff[pos] + 1].preferred_model[st] = results'[i][2]

\* C8 as stated: every basecaller writes the bases of a shortlist model of
\* maximal Viterbi path probability and sets preferred_model[s] to it.
C8_WinnerWrittenAndPreferred == [][BasecallsStrand => WinnerWritten(TRUE)]_vars

\* C8, amended: both basecallers write the bases of a shortlist model of
\* maximal Viterbi path probability; basecall_reads of the pipeline sets
\* preferred_model[s] to that model, that of src/nanocall.cpp leaves
\* preferred_model[s] as it was.
C8_WinnerWritten ==
    [][BasecallsStrand =>
         /\ WinnerWritten(build = "nanocall")
         /\ build = "legacy" =>
              reads'[buff[pos] + 1].preferred_model[st] =
                  Read.preferred_model[st]]_vars

C8_Witness ==
    /\ build = "nanocall"
    /\ pc = "b_strand"
    /\ st = 2
    /\ Len(results) = 2
    /\ results[1][1] < results[2][1]
    /\ Rank(results[2][2]) < Rank(results[1][2])
    /\ Read.preferred_model[1] = results[2][2]
    /\ oss[Len(oss)].seq = results[2][3]

(***************************************************************************)
(* Properties of the harness and of real_main, in SpecPfor.                *)
(***************************************************************************)
\* the index get_item dispensed for the read of this id
IndexOf(id) ==
    CHOOSE i \in 0..(Len(reads) - 1) : reads[i + 1].read_id = id

\* C1: the records in the output sink are in non-decreasing order of the
\* read index get_item dispensed, for every number of workers and every
\* interleaving of them.
C1_OutputInIndexOrder ==
    \A i \in DOMAIN os : \A j \in DOMAIN os :
        i < j => IndexOf(os[i].read) <= IndexOf(os[j].read)

\* two workers, the second chunk processed before the first, both written
C1_Witness ==
    /\ pc = "exit"
    /\ opts.num_threads >= 2
    /\ trace.passes # << >>
    /\ trace.passes[Len(trace.passes)] = "basecall"
    /\ Len(trace.finished) >= 2
    /\ trace.finished[1] = 1
    /\ \E i \in DOMAIN os : IndexOf(os[i].read) < chunk_size
    /\ \E j \in DOMAIN os : IndexOf(os[j].read) >= chunk_size

PassesRun == {trace.passes[i] : i \in DOMAIN trace.passes}

AllItems == {i - 1 : i \in DOMAIN reads}

\* C6: rescale_reads runs exactly when one of accurate_scaling,
\* scale_strands_together, scale_select_model_single_round is set,
\* basecall_reads exactly when scale_only is not; each runs at most once
\* and over every read by the time real_main returns, and no read is
\* basecalled before every read has been rescaled.
C6_PassGating ==
    build = "nanocall" =>
        LET rescales == \/ opts.accurate_scaling
                        \/ opts.scale_strands_together
                        \/ opts.scale_select_model_single_round
            basecalls == ~opts.scale_only
        IN /\ "rescale" \in PassesRun => rescales
           /\ "basecall" \in PassesRun => basecalls
           /\ trace.passes \in { << >>, << "rescale" >>, << "basecall" >>,
                                 << "rescale", "basecall" >> }
           /\ trace.began.basecall # {} =>
                 (rescales => trace.ended.rescale = AllItems)
           /\ "basecall" \in PassesRun =>
                 (rescales => /\ "rescale" \in PassesRun
                              /\ trace.ended.rescale = AllItems)
           /\ (pc = "exit" /\ exit_code = EXIT_SUCCESS) =>
                 /\ "rescale" \in PassesRun <=> rescales
                 /\ "basecall" \in PassesRun <=> basecalls
                 /\ rescales => trace.ended.rescale = AllItems
                 /\ basecalls => trace.ended.basecall = AllItems

C6_Witness ==
    /\ build = "nanocall"
    /\ pc = "basecall"
    /\ opts.num_threads >= 2
    /\ trace.passes = << "rescale", "basecall" >>
    /\ Len(reads) > chunk_size
    /\ trace.began.basecall # {}
    /\ trace.began.basecall # AllItems

(***************************************************************************)
(* Properties of the per-strand branch of rescale_reads.                   *)
(***************************************************************************)
StrandPcs ==
    {"s_strand", "s_round0", "s_select", "s_loop", "s_train", "s_persist"}

\* the model loop of the strand has gone through all of model_list[st]
StrandModelsDone == pc = "s_loop" /\ k > Len(model_list[st])

\* C11: in the per-strand branch without scale_select_model_single_round,
\* no step changes preferred_model or the strand's model list, the list is
\* the strand's shortlist, every model of it has had round 0 and at least
\* one round of the convergence loop when the strand is done, and after
\* each model's loop the parameters the loop ended with are written back.
C11_NoSelectionUnlessAsked ==
    [][(pc \in StrandPcs /\ ~opts.scale_select_model_single_round) =>
          /\ reads'[buff[pos] + 1].preferred_model = Read.preferred_model
          /\ model_list' = model_list
          /\ StrandModelsDone =>
               /\ model_list[st] =
                     Shortlist(models, Read.preferred_model[st], st)
               /\ \A i \in DOMAIN model_list[st] :
                     calls[st][model_list[st][i]] >= 2
          /\ pc = "s_persist" =>
               reads'[buff[pos] + 1].params[st][model_list[st][k]] =
                   crt_pm_params]_vars

C11_Witness ==
    /\ StrandModelsDone
    /\ ~opts.scale_select_model_single_round
    /\ Len(model_list[st]) = 2
    /\ Read.preferred_model[st] = NoName
    /\ \A i \in DOMAIN model_list[st] : calls[st][model_list[st][i]] >= 2
    /\ Read.params[st][model_list[st][1]] # Read.params[st][model_list[st][2]]

(***************************************************************************)
(* The output as a function of the input, in SpecPfor.                     *)
(***************************************************************************)
Loaded(r) == [r EXCEPT !.events = LoadedEvents(r), !.loaded = TRUE]

\* the records of one read when it is processed on its own: rescaled if
\* the options ask for it, then basecalled
RecordsOf(r) ==
    LET rescales == /\ build = "nanocall"
                    /\ \/ opts.accurate_scaling
                       \/ opts.scale_strands_together
                       \/ opts.scale_select_model_single_round
        scaled == IF rescales THEN Dropped(Rescaled(Loaded(r), opts))
                  ELSE r
    IN Basecalled(Basecalled([read |-> Loaded(scaled), oss |-> << >>], 0),
                  1).oss

\* what one thread writes for the files given: the records of the reads
\* kept, in input order
SequentialOutput ==
    LET kept == SelectSeq(files, KeepRead)
        F[i \in 0..Len(kept)] ==
            IF i = 0 THEN << >> ELSE F[i - 1] \o RecordsOf(kept[i])
    IN IF build = "legacy" \/ ~opts.scale_only THEN F[Len(kept)] ELSE << >>

\* C12: the sequence output of a finished run is a function of the files,
\* the models and the options other than the number of threads (the
\* output of the one-thread run), whatever the number of threads and the
\* interleaving of the workers.
C12_OutputIsSequentialOutput == pc = "exit" => os = SequentialOutput

\* two workers, both passes, the second chunk processed before the first
C12_Witness ==
    /\ pc = "exit"
    /\ opts.num_threads >= 2
    /\ trace.passes = << "rescale", "basecall" >>
    /\ Len(trace.finished) >= 2
    /\ trace.finished[1] # 0
    /\ Len(os) > chunk_size
    /\ os = SequentialOutput

(***************************************************************************)
(* Properties of real_main's exits.                                        *)
(***************************************************************************)
PassPcs ==
    {"r_get", "r_item", "t_round0", "t_select", "t_loop", "t_train",
     "t_persist", "s_strand", "s_round0", "s_select", "s_loop", "s_train",
     "s_persist", "r_drop", "b_get", "b_item", "b_strand", "b_out"}

\* C13: once init_reads has left the read set empty, neither pass is
\* entered and the program exits with a status other than EXIT_SUCCESS.
C13_NoReadsIsFatal ==
    (build = "nanocall" /\ reads = << >>
                        /\ pc \notin {"init_files", "init_reads"}) =>
        /\ pc \notin PassPcs
        /\ pc = "exit" => exit_code # EXIT_SUCCESS

\* C14: a run with --scale-only and --stats that returns has written no
\* sequence record, and a stats file with at least one line.
C14_ScaleOnlyWritesStats ==
    (build = "nanocall" /\ pc = "exit" /\ exit_code = EXIT_SUCCESS
                        /\ opts.scale_only /\ opts.stats) =>
        /\ os = << >>
        /\ stats_file.opened
        /\ stats_file.lines # << >>

(***************************************************************************)
(* Properties of init_models, in SpecModels.                               *)
(***************************************************************************)
\* <strand>:<path> with the strand one of 0, 1, 2 and the path not empty
OfTheFormat(str) ==
    LET path == SubSeq(str, 3, Len(str))
    IN \E d \in {"0", "1", "2"} :
          path # << >> /\ str = << d, ":" >> \o path

NamesGiven == model_args.fn \o model_args.fofn

\* C15: when one of the names given (by --model or in the --model-fofn
\* file) is not of the format, init_models gets no further than parsing
\* the names, loads no model, no read is processed, and where the program
\* has exited it has done so with a status other than EXIT_SUCCESS.
C15_BadNameIsFatal ==
    (\E i \in DOMAIN NamesGiven : ~OfTheFormat(NamesGiven[i])) =>
        /\ pc \in {"im_fn", "im_fofn", "exit"}
        /\ models = << >>
        /\ reads = << >>
        /\ pc = "exit" => exit_code = EXIT_FAILURE

\* a name of the format, then 3:x in the fofn: exit before any load
C15_Witness ==
    /\ pc = "exit"
    /\ exit_code = EXIT_FAILURE
    /\ Len(model_args.fn) = 1
    /\ OfTheFormat(model_args.fn[1])
    /\ model_args.fofn = << << "3", ":", "x" >> >>
    /\ given.list # NoneGiven.list
    /\ models = << >>

\* C20: when init_models returns, each of the strands 0 and 1 has a model
\* of its own strand or of strand 2.
C20_EveryStrandHasAModel ==
    pc = "im_done" =>
        \A t \in Strands :
            \E n \in DOMAIN models : models[n] = t \/ models[n] = 2

(***************************************************************************)
(* Progress of the harness, in SpecPforFair.                               *)
(***************************************************************************)
\* every pass the options enable has processed every read, every chunk
\* taken has been written, and the workers are gone
PassesComplete ==
    /\ (build = "nanocall" /\ \/ opts.accurate_scaling
                              \/ opts.scale_strands_together
                              \/ opts.scale_select_model_single_round)
          => trace.ended.rescale = AllItems
    /\ (build = "legacy" \/ ~opts.scale_only)
          => trace.ended.basecall = AllItems
    /\ cid_out = cid_in
    /\ wk = IdleWorkers

\* C16: with every thread scheduled fairly the run ends, and where it
\* ends by real_main returning, each enabled pass has processed every read
\* index, every chunk has been written and pfor has returned.
C16_RunsToCompletion ==
    <>(pc = "exit" /\ (exit_code = EXIT_SUCCESS => PassesComplete))

\* a worker with its chunk done, held at the barrier behind another chunk
C16_Witness ==
    \E w \in DOMAIN wk : \E v \in DOMAIN wk :
        /\ pc = "basecall"
        /\ wk[w].pc = "wait"
        /\ wk[w].cid > cid_out
        /\ wk[v].pc = "loaded"
        /\ wk[v].cid = cid_out

(***************************************************************************)
(* Dispensing of the read indices, in SpecPfor.                            *)
(***************************************************************************)
\* the indices a worker holds, and those of them it has yet to begin
Held(w) == {wk[w].buff[j] : j \in DOMAIN wk[w].buff}

Pending(w) ==
    {wk[w].buff[j] :
        j \in {n \in DOMAIN wk[w].buff :
                  \/ n > wk[w].pos
                  \/ n = wk[w].pos /\ wk[w].pc = "item"}}

\* C17: within a pass the indices are dispensed in strictly increasing
\* order, every index dispensed is held by exactly one worker or has been
\* processed, none is begun twice, no two workers hold the same index, and
\* when the pass is over every index in [0, |reads|) has been processed.
C17_EachIndexOnce ==
    /\ pc \in {"rescale", "basecall"} =>
          /\ \A w \in DOMAIN wk :
                /\ \A i \in DOMAIN wk[w].buff : \A j \in DOMAIN wk[w].buff :
                      i < j => wk[w].buff[i] < wk[w].buff[j]
                /\ Held(w) \subseteq 0..(crt_idx - 1)
                /\ Pending(w) \cap trace.began[pc] = {}
                /\ Held(w) \ Pending(w) \subseteq trace.began[pc]
          /\ \A w \in DOMAIN wk : \A v \in DOMAIN wk :
                w # v =>
                   /\ Held(w) \cap Held(v) = {}
                   /\ (Held(w) # {} /\ Held(v) # {} /\ wk[w].cid < wk[v].cid)
                         => \A i \in Held(w) : \A j \in Held(v) : i < j
          /\ \A i \in 0..(crt_idx - 1) :
                \/ i \in trace.ended[pc]
                \/ \E w \in DOMAIN wk : i \in Held(w)
          /\ trace.began[pc] \subseteq 0..(crt_idx - 1)
    /\ \A pass \in PassesRun :
          pc # pass => /\ trace.began[pass] = AllItems
                       /\ trace.ended[pass] = AllItems

\* two workers processing two different reads at the same time
C17_Witness ==
    /\ pc = "basecall"
    /\ \E w \in DOMAIN wk : \E v \in DOMAIN wk :
          /\ w # v
          /\ wk[w].pc = "loaded"
          /\ wk[v].pc = "loaded"
          /\ Item(w) < Item(v)

(***************************************************************************)
(* Properties of write_fasta, in SpecFasta.                                *)
(***************************************************************************)
RECURSIVE Joined(_)
Joined(lines) ==
    IF lines = << >> THEN << >> ELSE Head(lines) \o Joined(Tail(lines))

\* the stream holds the header line, then the sequence cut into lines of
\* fasta_line_width characters, the last one possibly shorter
Wrapped ==
    /\ os # << >>
    /\ os[1] = << ">" >> \o name
    /\ Joined(Tail(os)) = seq
    /\ \A i \in 2..Len(os) :
          /\ Len(os[i]) <= fasta_line_width
          /\ i < Len(os) => Len(os[i]) = fasta_line_width

\* C18: write_fasta returns for every sequence and every line width, and
\* for a width of at least 1 what it has written is the header line and
\* then body lines whose concatenation is the sequence, each of at most
\* fasta_line_width characters and all but the last of exactly that many.
C18_WriteFastaWrapsAndReturns ==
    /\ [](pc = "wf_done" /\ fasta_line_width >= 1 => Wrapped)
    /\ <>(pc = "wf_done")

(***************************************************************************)
(* The early stop of the convergence loop, in Spec.                        *)
(***************************************************************************)
\* C19: the convergence loop of a model is not left for lack of fit
\* progress at the end of its first iteration: when it is left there with
\* the round neither singular nor a regression, the round limit is reached.
C19_NoEarlyStopInFirstRound ==
    [][(/\ pc \in LoopPcs
        /\ round = 1
        /\ pc' \in PersistPcs
        /\ ~last'.done
        /\ last'.crt_fit >= last'.old_fit)
          => round' >= opts.scale_max_rounds]_vars

(***************************************************************************)
(* The parameters and the fit the convergence loop is left with, in Spec.  *)
(* The fit train_one_round returns is the likelihood under the parameters  *)
(* passed into that call: last.crt_fit is the likelihood of                *)
(* last.old_params.                                                        *)
(***************************************************************************)
\* C21: when the convergence loop is left by regression, in a round after
\* its first, the parameters it is left with are those whose likelihood was
\* measured as old_fit, the parameters passed into the call before, and the
\* fit it is left with is theirs.
C21_RegressionKeepsTheBetterParams ==
    [][(/\ pc \in LoopPcs
        /\ pc' \in PersistPcs
        /\ last.round >= 1
        /\ ~last'.done
        /\ last'.crt_fit < last'.old_fit)
          => /\ crt_fit' = last.crt_fit
             /\ crt_pm_params' = last.old_params]_vars

(***************************************************************************)
(* What the basecalling pass does with what the rescaling pass left, in    *)
(* Spec.                                                                   *)
(***************************************************************************)
BasecallPcs == {"basecall_gate", "b_get", "b_item", "b_strand", "b_out"}

\* C22: in the basecalling pass of nanocall no params entry of a read
\* changes and a preferred model naming a known model stays; a strand long
\* enough with such a preferred model m is decoded with the single model m,
\* scaled by params[s][m] as the rescaling pass left it.
C22_BasecallKeepsWhatRescaleLeft ==
    [][(build = "nanocall" /\ pc \in BasecallPcs) =>
          /\ \A i \in DOMAIN reads :
                /\ reads'[i].params = reads[i].params
                /\ \A s \in Strands :
                      reads[i].preferred_model[s] \in DOMAIN models
                         => reads'[i].preferred_model[s]
                               = reads[i].preferred_model[s]
          /\ (/\ pc = "b_strand"
              /\ st < 2
              /\ ~NotEnoughEvents(Read.events[st])
              /\ Read.preferred_model[st] \in DOMAIN models)
                => LET m == Read.preferred_model[st]
                   IN /\ Len(results') = 1
                      /\ results'[1][2] = m
                      /\ results'[1][3] = base_seq(m, Read.params[st][m])]_vars

\* a strand with two applicable models and no preferred model on the
\* command line, decoded with the one model the rescaling pass selected
\* and the parameters it trained
C22_Witness ==
    /\ build = "nanocall"
    /\ pc = "b_strand"
    /\ st = 1
    /\ opts.scale_select_model_single_round
    /\ files[1].preferred_model[0] = NoName
    /\ Len(Applicable(models, 0)) > 1
    /\ Len(results) = 1
    /\ results[1][2] = Read.preferred_model[0]
    /\ results[1][3].params # DefaultParams

(***************************************************************************)
(* The events held in memory, in SpecPfor.                                 *)
(***************************************************************************)
\* the reads whose events are loaded
HoldingEvents == {i \in AllItems : reads[i + 1].loaded}

\* C23: in nanocall a read holds loaded events only while a worker is
\* inside process_item on it, after load_events and before drop_events; so
\* at most num_threads reads hold events at once, and none outside a pass.
C23_EventsHeldOnlyInProcessItem ==
    build = "nanocall" =>
        /\ \A i \in HoldingEvents :
              /\ pc \in {"rescale", "basecall"}
              /\ \E w \in DOMAIN wk : wk[w].pc = "loaded" /\ Item(w) = i
        /\ \A i \in AllItems \ HoldingEvents :
              reads[i + 1].events = [s \in Strands |-> 0]
        /\ Cardinality(HoldingEvents) <= opts.num_threads

\* as many reads hold events as there are workers, more than one
C23_Witness ==
    /\ build = "nanocall"
    /\ opts.num_threads > 1
    /\ Cardinality(HoldingEvents) = opts.num_threads
    /\ \E i \in HoldingEvents : reads[i + 1].events # [s \in Strands |-> 0]

(***************************************************************************)
(* The params lookups of the two passes, in Spec.                          *)
(***************************************************************************)
\* the (slot, key) pairs the step about to be taken looks up with .at()
AtLookups ==
    IF pc \in {"t_round0", "t_persist"} \/ (pc = "t_loop" /\ k <= Len(Pairs))
    THEN {<< 2, PairKey(Pairs[k]) >>}
    ELSE IF \/ pc \in {"s_round0", "s_persist"}
            \/ (pc = "s_loop" /\ k <= Len(model_list[st]))
    THEN {<< st, model_list[st][k] >>}
    ELSE IF /\ pc = "b_strand"
            /\ st < 2
            /\ IF build = "nanocall"
               THEN ~NotEnoughEvents(Read.events[st])
               ELSE ~LegacyTooShort(Read.events[st])
    THEN {<< st, m >> :
             m \in SublistNames(Shortlist(models, Read.preferred_model[st],
                                          st))}
    ELSE {}

\* the params of the read as the lookups find them: src/nanocall.cpp first
\* fills in the entries of the sublist that are missing
ParamsLookedUp ==
    IF build = "legacy" /\ pc = "b_strand"
    THEN [Read.params EXCEPT ![st] =
            LegacyInitParams(@, Shortlist(models, Read.preferred_model[st],
                                          st))]
    ELSE Read.params

NextIsLastTrained ==
    \/ /\ pc = "t_loop"
       /\ k <= Len(Pairs)
       /\ last.strand = 2
       /\ last.model = PairKey(Pairs[k])
    \/ /\ pc = "s_loop"
       /\ k <= Len(model_list[st])
       /\ last.strand = st
       /\ last.model = model_list[st][k]

\* C25: a model whose round 0 signaled done is not trained further: the
\* convergence loop, whose first step is a call of train_one_round, is not
\* entered for it.
C25_DoneInRound0StopsTraining ==
    [][(last.round = 0 /\ last.done /\ NextIsLastTrained)
          => pc' \notin LoopPcs]_vars

(***************************************************************************)
(* Properties of the training event sequences, in SpecTrain.               *)
(***************************************************************************)
EventsOf(events) == {events[i] : i \in DOMAIN events}

\* the strands the loop has dealt with
StrandsDone == {s \in Strands : s < st}

\* C26, as the code has it: the training sequences of a strand long enough
\* are the first and the last floor(n/2) events, n being the smaller of
\* scale_num_events and the number of events, and the two never share an
\* event; a strand too short gets none.
C26_PrefixAndSuffixApart ==
    \A s \in StrandsDone :
        LET events == reads[1].events[s]
            n == IF scale_num_events < Len(events)
                 THEN scale_num_events ELSE Len(events)
            half == n \div 2
        IN IF Len(events) < min_read_len
           THEN train_event_seqs[s] = << >>
           ELSE /\ Len(train_event_seqs[s]) = 2
                /\ train_event_seqs[s][1] = [i \in 1..half |-> events[i]]
                /\ train_event_seqs[s][2] =
                      [i \in 1..half |-> events[Len(events) - half + i]]
                /\ EventsOf(train_event_seqs[s][1])
                      \cap EventsOf(train_event_seqs[s][2]) = {}

\* a strand with fewer events than scale_num_events, an odd number of
\* them: the middle event is in neither sequence
C26_Witness ==
    /\ pc = "train_seqs_done"
    /\ Len(reads[1].events[0]) = 5
    /\ scale_num_events > 5
    /\ train_event_seqs[0] = << << 1, 2 >>, << 4, 5 >> >>

\* C26, as stated: the same two sequences, which share an event when the
\* strand has fewer events than scale_num_events.
C26_PrefixAndSuffixOverlap ==
    \A s \in StrandsDone :
        (/\ Len(reads[1].events[s]) >= min_read_len
         /\ Len(reads[1].events[s]) < scale_num_events)
           => /\ Len(train_event_seqs[s]) = 2
              /\ EventsOf(train_event_seqs[s][1])
                    \cap EventsOf(train_event_seqs[s][2]) # {}

(***************************************************************************)
(* The model dictionary and the transition table, in SpecPfor.             *)
(***************************************************************************)
\* C27: no step of real_main after init_models and init_transitions, and
\* so no step of any worker in rescale_reads or basecall_reads, changes the
\* model dictionary or the transition table.
C27_ModelsAndTransitionsReadOnly ==
    [][models' = models /\ transitions' = transitions]_vars

\* both passes have run with more than one worker, reads were rescaled and
\* basecalled, and the two are as init_models and init_transitions left them
C27_Witness ==
    /\ pc = "exit"
    /\ opts.num_threads > 1
    /\ PassesRun = {"rescale", "basecall"}
    /\ trace.ended.rescale # {}
    /\ os # << >>
    /\ models = OneModelPerStrand
    /\ transitions = InitTransitions

====
